---------------------------- MODULE Spec2Model ----------------------------
(***************************************************************************)
(* Model of the Kimi tokenizer oracle (src/oracle/kimi_oracle.py).         *)
(*                                                                         *)
(* Strings are sequences of one-character strings, byte strings are        *)
(* sequences of integers 0..255, texts are sequences of codepoints.        *)
(* A Python dict is a set of <<key, value>> pairs with pairwise distinct   *)
(* keys; DictPut overwrites as an assignment d[k] = v does.                *)
(***************************************************************************)
EXTENDS Integers, Sequences, FiniteSets, TLC

VARIABLES
    st_pc,      \* build_special_tokens: "start" | "done"
    st_added,   \* tokenizer_config["added_tokens_decoder"], in iteration order
    st_n,       \* num_base_tokens
    st_tokens,  \* the dict build_special_tokens returns (name -> id)
    sg_pc,      \* segmenter: "scan" | "done"
    sg_text,    \* the text being segmented (codepoints)
    sg_pos,     \* the position the next search starts at (1-based)
    sg_chunks,  \* the chunks found so far: [start, end, rule], end exclusive
    bp_pc,      \* BPE merger: "merge" | "done"
    bp_ranks,   \* the rank table (byte string -> rank)
    bp_chunk,   \* the chunk's bytes
    bp_pieces,  \* the current pieces (byte strings)
    bp_merges,  \* the number of merges made
    bp_ids,     \* the rank-ids produced when the merging is over
    m_pc,       \* main: "build" | "loop" | "written" | "failed"
    m_lines,    \* the lines of tiktoken.model
    m_added,    \* added_tokens_decoder of tokenizer_config.json
    m_count,    \* len(texts) of the payload
    m_allow,    \* allow_special_tokens of the payload
    m_enc,      \* enc: [built, ranks, special_tokens]
    m_texts,    \* the texts the loop has taken so far
    m_out,      \* out: the records appended so far
    m_stdout,   \* what was written to stdout: [written, results]
    m_error,    \* the exception that ended main, or "none"
    d_pc,       \* downloads of main: "model" | "config" | "done" | "failed"
    d_fs,       \* the cache directory: path -> [exists, size]
    d_returned, \* the paths download_if_missing has returned in this run
    d_runs      \* the number of runs of main started

special_vars == <<st_pc, st_added, st_n, st_tokens>>
segment_vars == <<sg_pc, sg_text, sg_pos, sg_chunks>>
merge_vars == <<bp_pc, bp_ranks, bp_chunk, bp_pieces, bp_merges, bp_ids>>
main_vars == <<m_pc, m_lines, m_added, m_count, m_allow, m_enc, m_texts, m_out,
               m_stdout, m_error>>
download_vars == <<d_pc, d_fs, d_returned, d_runs>>
vars == <<special_vars, segment_vars, merge_vars, main_vars, download_vars>>

----------------------------------------------------------------------------
(* Generic helpers *)

RECURSIVE Concat(_)
Concat(ss) == IF ss = <<>> THEN <<>> ELSE Head(ss) \o Concat(Tail(ss))

SeqsUpTo(S, n) == UNION {[1..k -> S] : k \in 0..n}

Range(s) == {s[i] : i \in DOMAIN s}

DictKeys(d) == {p[1] : p \in d}
DictVals(d) == {p[2] : p \in d}
DictHas(d, k) == \E p \in d : p[1] = k
DictGet(d, k) == (CHOOSE p \in d : p[1] = k)[2]
\* d[k] = v: the pair of key k is replaced, or added when k is new
DictPut(d, k, v) == {IF p[1] = k THEN <<k, v>> ELSE p : p \in d \cup {<<k, v>>}}

\* F applied to a value computed once
With(v, F(_)) == F(v)

----------------------------------------------------------------------------
(* build_special_tokens *)

NUM_RESERVED_SPECIAL_TOKENS == 256

Digits == <<"0", "1", "2", "3", "4", "5", "6", "7", "8", "9">>
IsDigit(c) == \E i \in 1..10 : Digits[i] = c
DigitVal(c) == (CHOOSE i \in 1..10 : Digits[i] = c) - 1

\* str(n) for n >= 0
RECURSIVE Decimal(_)
Decimal(n) == IF n < 10 THEN <<Digits[n + 1]>>
              ELSE Decimal(n \div 10) \o <<Digits[(n % 10) + 1]>>

IsSpace(c) == c \in {" ", "\t", "\n", "\r"}

RECURSIVE StripLeft(_)
StripLeft(s) == IF s # <<>> /\ IsSpace(Head(s)) THEN StripLeft(Tail(s)) ELSE s
RECURSIVE StripRight(_)
StripRight(s) == IF s # <<>> /\ IsSpace(s[Len(s)])
                 THEN StripRight(SubSeq(s, 1, Len(s) - 1)) ELSE s
Strip(s) == StripRight(StripLeft(s))

\* The digits of an int() literal: digits, single underscores only between digits.
RECURSIVE DigitsValue(_, _)
DigitsValue(s, acc) ==
    IF s = <<>> THEN acc
    ELSE IF Head(s) = "_" THEN DigitsValue(Tail(s), acc)
    ELSE DigitsValue(Tail(s), 10 * acc + DigitVal(Head(s)))

DigitsOk(s) ==
    /\ s # <<>>
    /\ \A i \in 1..Len(s) : IsDigit(s[i]) \/ s[i] = "_"
    /\ IsDigit(s[1]) /\ IsDigit(s[Len(s)])
    /\ \A i \in 1..(Len(s) - 1) : ~(s[i] = "_" /\ s[i + 1] = "_")

\* Python int(str): surrounding whitespace stripped, optional sign, decimal digits.
\* [ok |-> FALSE] stands for the ValueError.
ParseSigned(sign, body) ==
    IF DigitsOk(body)
    THEN [ok |-> TRUE,
          val |-> IF sign = "-" THEN 0 - DigitsValue(body, 0) ELSE DigitsValue(body, 0)]
    ELSE [ok |-> FALSE, val |-> 0]
ParseStripped(s) ==
    IF s # <<>> /\ Head(s) \in {"+", "-"} THEN ParseSigned(Head(s), Tail(s))
    ELSE ParseSigned("+", s)
ParseInt(str) == ParseStripped(Strip(str))

\* f"<|reserved_token_{token_id}|>"
ReservedPrefix == <<"<", "|", "r", "e", "s", "e", "r", "v", "e", "d", "_",
                    "t", "o", "k", "e", "n", "_">>
Placeholder(token_id) == ReservedPrefix \o Decimal(token_id) \o <<"|", ">">>

\* One iteration of the loop over added.items(): an entry is
\* [key |-> string, attrs |-> [kind, content]] with kind "str" (a dict whose
\* "content" is a string), "nonstr" (a dict whose "content" is missing or not
\* a string) or "notdict".
EntryValid(e) == ParseInt(e.key).ok /\ e.attrs.kind = "str"

MappingStep(mapping, e) ==
    With(ParseInt(e.key),
         LAMBDA token_id :
             IF ~token_id.ok THEN mapping
             ELSE IF e.attrs.kind = "str"
                  THEN DictPut(mapping, token_id.val, e.attrs.content)
                  ELSE mapping)

RECURSIVE BuildMapping(_, _)
BuildMapping(added, mapping) ==
    IF added = <<>> THEN mapping
    ELSE BuildMapping(Tail(added), MappingStep(mapping, Head(added)))

TokenName(mapping, token_id) ==
    IF DictHas(mapping, token_id) THEN DictGet(mapping, token_id)
    ELSE Placeholder(token_id)

\* The second loop: special_tokens[tok] = token_id for token_id ascending from
\* first up to last - 1. The range is walked in two halves, left half first,
\* which is the loop's order of assignments (the test on the left half's size is
\* always true: it makes TLC compute the left half before it walks the right).
RECURSIVE FillSpecial(_, _, _, _)
FillRight(mapping, mid, last, left) ==
    IF Cardinality(left) >= 0 THEN FillSpecial(mapping, mid, last, left) ELSE left
FillSpecial(mapping, first, last, special_tokens) ==
    IF first >= last THEN special_tokens
    ELSE IF last = first + 1
         THEN DictPut(special_tokens, TokenName(mapping, first), first)
         ELSE FillRight(mapping, (first + last) \div 2, last,
                        FillSpecial(mapping, first, (first + last) \div 2,
                                    special_tokens))

build_special_tokens(added, num_base_tokens) ==
    FillSpecial(BuildMapping(added, {}), num_base_tokens,
                num_base_tokens + NUM_RESERVED_SPECIAL_TOKENS, {})

ReservedIds(n) == n..(n + NUM_RESERVED_SPECIAL_TOKENS - 1)

(* Inputs of the special-token specification *)
MaxAdded == 2
\* keys that parse ("01" and "1" to the same id, "-1" to a negative one) and
\* keys that do not
MetaKeys == {<<"0">>, <<"1">>, <<"0", "1">>, <<"1", "1">>, <<"-", "1">>,
             <<"x">>, <<"1", "x">>}
MetaAttrs == {[kind |-> "str", content |-> <<"a">>],
              [kind |-> "str", content |-> Placeholder(11)],
              [kind |-> "nonstr", content |-> <<>>],
              [kind |-> "notdict", content |-> <<>>]}
MetaEntries == [key : MetaKeys, attrs : MetaAttrs]
\* a JSON object holds each key once
AddedTables == {a \in SeqsUpTo(MetaEntries, MaxAdded) :
                  \A i, j \in DOMAIN a : i # j => a[i].key # a[j].key}
BaseSizes == {0, 1, 10}

IdleSpecial == st_pc = "idle" /\ st_added = <<>> /\ st_n = 0 /\ st_tokens = {}
IdleSegment == sg_pc = "idle" /\ sg_text = <<>> /\ sg_pos = 1 /\ sg_chunks = <<>>
IdleMerge == /\ bp_pc = "idle" /\ bp_ranks = {} /\ bp_chunk = <<>>
             /\ bp_pieces = <<>> /\ bp_merges = 0 /\ bp_ids = <<>>
NoEncoding == [built |-> FALSE, ranks |-> {}, special_tokens |-> {}]
NoOutput == [written |-> FALSE, results |-> <<>>]
IdleMain == /\ m_pc = "idle" /\ m_lines = <<>> /\ m_added = <<>> /\ m_count = 0
            /\ m_allow = FALSE /\ m_enc = NoEncoding /\ m_texts = <<>>
            /\ m_out = <<>> /\ m_stdout = NoOutput /\ m_error = "none"
IdleDownload == d_pc = "idle" /\ d_fs = <<>> /\ d_returned = {} /\ d_runs = 0

InitSpecial ==
    /\ IdleSegment /\ IdleMerge /\ IdleMain /\ IdleDownload
    /\ st_pc = "start"
    /\ st_added \in AddedTables
    /\ st_n \in BaseSizes
    /\ st_tokens = {}

BuildSpecialTokens ==
    /\ st_pc = "start"
    /\ st_tokens' = build_special_tokens(st_added, st_n)
    /\ st_pc' = "done"
    /\ UNCHANGED <<st_added, st_n, segment_vars, merge_vars, main_vars, download_vars>>

NextSpecial == BuildSpecialTokens

SpecSpecial == InitSpecial /\ [][NextSpecial]_vars

\* C1: the returned table is total and one-to-one over the reserved range:
\* its ids are exactly {N, ..., N+255} and it has 256 entries.
C1_TableTotalOverReservedRange ==
    st_pc = "done" =>
        /\ DictVals(st_tokens) = ReservedIds(st_n)
        /\ Cardinality(st_tokens) = NUM_RESERVED_SPECIAL_TOKENS

\* C2: every id in [N, N+256) is named by the content of a retained metadata
\* entry whose key parses as that id when there is one, and by its placeholder
\* otherwise; skipped entries change no name.
C2_NameOfEveryReservedId ==
    st_pc = "done" =>
        \A id \in ReservedIds(st_n) :
            LET named == {i \in DOMAIN st_added :
                            EntryValid(st_added[i]) /\ ParseInt(st_added[i].key).val = id}
            IN  IF named # {}
                THEN \E i \in named : <<st_added[i].attrs.content, id>> \in st_tokens
                ELSE <<Placeholder(id), id>> \in st_tokens

----------------------------------------------------------------------------
(* Segmenter: the pattern of kimi_pat_str *)

\* Unicode classes, on the blocks the model draws codepoints from: ASCII,
\* the combining diacritical marks and the CJK unified ideographs.
IsHan(c) == c \in 19968..40959
IsLu(c) == c \in 65..90
IsLl(c) == c \in 97..122
IsLt(c) == c = 453
IsLm(c) == c = 688
IsLo(c) == IsHan(c) \/ c = 170
IsM(c) == c \in 768..879
IsL(c) == IsLu(c) \/ IsLl(c) \/ IsLt(c) \/ IsLm(c) \/ IsLo(c)
IsN(c) == c \in 48..57
IsWhite(c) == c \in {9, 10, 11, 12, 13, 32, 133, 160}
IsNewline(c) == c \in {10, 13}

\* [^\r\n\p{L}\p{N}]
IsLead(c) == ~IsNewline(c) /\ ~IsL(c) /\ ~IsN(c)
\* [\p{Lu}\p{Lt}\p{Lm}\p{Lo}\p{M}&&[^\p{Han}]]
IsUpperish(c) == (IsLu(c) \/ IsLt(c) \/ IsLm(c) \/ IsLo(c) \/ IsM(c)) /\ ~IsHan(c)
\* [\p{Ll}\p{Lm}\p{Lo}\p{M}&&[^\p{Han}]]
IsLowerish(c) == (IsLl(c) \/ IsLm(c) \/ IsLo(c) \/ IsM(c)) /\ ~IsHan(c)
\* [^\s\p{L}\p{N}]
IsSymbol(c) == ~IsWhite(c) /\ ~IsL(c) /\ ~IsN(c)
IsBlank(c) == c = 32

\* the character classes of the pattern, by name
InClass(cls, t, p) ==
    /\ p <= Len(t)
    /\ CASE cls = "han" -> IsHan(t[p])
         [] cls = "lead" -> IsLead(t[p])
         [] cls = "upperish" -> IsUpperish(t[p])
         [] cls = "lowerish" -> IsLowerish(t[p])
         [] cls = "number" -> IsN(t[p])
         [] cls = "blank" -> IsBlank(t[p])
         [] cls = "symbol" -> IsSymbol(t[p])
         [] cls = "newline" -> IsNewline(t[p])
         [] cls = "white" -> IsWhite(t[p])

RECURSIVE RunEnd(_, _, _)
RunEnd(cls, t, p) == IF InClass(cls, t, p) THEN RunEnd(cls, t, p + 1) ELSE p

\* A pattern piece applied to text t at position p gives the positions at which
\* a match of it can end, in the order a backtracking matcher tries them
\* (greedy: longest first). The run x{lo,hi}:
Countdown(top, low) ==
    IF top < low THEN <<>> ELSE [i \in 1..(top - low + 1) |-> top - i + 1]
Least(a, b) == IF a < b THEN a ELSE b
RepAt(cls, t, p, lo, hi) == Countdown(Least(RunEnd(cls, t, p), p + hi), p + lo)

\* piece after piece: every end of the piece before is a start of this one
Rep(cls, t, starts, lo, hi) ==
    Concat([i \in DOMAIN starts |-> RepAt(cls, t, starts[i], lo, hi)])
Opt(cls, t, starts) == Rep(cls, t, starts, 0, 1)
Star(cls, t, starts) == Rep(cls, t, starts, 0, Len(t))
Plus(cls, t, starts) == Rep(cls, t, starts, 1, Len(t))

\* (?i:'s|'t|'re|'ve|'m|'ll|'d)?
Contractions == << <<39, 115>>, <<39, 116>>, <<39, 114, 101>>, <<39, 118, 101>>,
                   <<39, 109>>, <<39, 108, 108>>, <<39, 100>> >>
Fold(c) == IF c \in 65..90 THEN c + 32 ELSE c
MatchesFolded(t, p, w) ==
    /\ p + Len(w) - 1 <= Len(t)
    /\ \A i \in 1..Len(w) : Fold(t[p + i - 1]) = w[i]
OptContractionAt(t, p) ==
    Concat([k \in DOMAIN Contractions |->
               IF MatchesFolded(t, p, Contractions[k])
               THEN <<p + Len(Contractions[k])>> ELSE <<>>]) \o <<p>>
OptContraction(t, starts) ==
    Concat([i \in DOMAIN starts |-> OptContractionAt(t, starts[i])])

\* (?!\S): the ends that are not followed by a non-whitespace codepoint
NotBeforeNonWhite(t, ends) ==
    Concat([i \in DOMAIN ends |->
               IF ends[i] <= Len(t) /\ ~IsWhite(t[ends[i]]) THEN <<>> ELSE <<ends[i]>>])

\* A rule applied at p: the end of its match, or 0 when it does not match.
FirstEnd(ends) == IF ends = <<>> THEN 0 ELSE Head(ends)

\* [\p{Han}]+
Rule1(t, p) == FirstEnd(Plus("han", t, <<p>>))
\* lead? upperish* lowerish+ contraction?
Rule2(t, p) ==
    FirstEnd(OptContraction(t,
                Plus("lowerish", t, Star("upperish", t, Opt("lead", t, <<p>>)))))
\* lead? upperish+ lowerish* contraction?
Rule3(t, p) ==
    FirstEnd(OptContraction(t,
                Star("lowerish", t, Plus("upperish", t, Opt("lead", t, <<p>>)))))
\* \p{N}{1,3}
Rule4(t, p) == FirstEnd(Rep("number", t, <<p>>, 1, 3))
\*  ?[^\s\p{L}\p{N}]+[\r\n]*
Rule5(t, p) ==
    FirstEnd(Star("newline", t, Plus("symbol", t, Opt("blank", t, <<p>>))))
\* \s*[\r\n]+
Rule6(t, p) == FirstEnd(Plus("newline", t, Star("white", t, <<p>>)))
\* \s+(?!\S)
Rule7(t, p) == FirstEnd(NotBeforeNonWhite(t, Plus("white", t, <<p>>)))
\* a rule list without its last alternative
Rule8Never(t, p) == 0
\* \s+
Rule8(t, p) == FirstEnd(Plus("white", t, <<p>>))

NumRules == 8
RuleEnd(r, t, p) ==
    CASE r = 1 -> Rule1(t, p) [] r = 2 -> Rule2(t, p) [] r = 3 -> Rule3(t, p)
      [] r = 4 -> Rule4(t, p) [] r = 5 -> Rule5(t, p) [] r = 6 -> Rule6(t, p)
      [] r = 7 -> Rule7(t, p) [] r = 8 -> Rule8(t, p)

\* "|".join(parts): the first alternative that matches at p wins
FirstRule(ends) ==
    IF \A r \in 1..NumRules : ends[r] = 0 THEN [rule |-> 0, end |-> 0]
    ELSE With(CHOOSE r \in 1..NumRules :
                  ends[r] # 0 /\ \A y \in 1..(r - 1) : ends[y] = 0,
              LAMBDA r : [rule |-> r, end |-> ends[r]])
KimiMatch(t, p) == FirstRule([r \in 1..NumRules |-> RuleEnd(r, t, p)])

\* The search for the next chunk: the leftmost position from p on at which
\* some rule matches (a position no rule matches at is passed over).
RECURSIVE FindFrom(_, _)
FindFrom(t, p) ==
    IF p > Len(t) THEN [start |-> 0, end |-> 0, rule |-> 0]
    ELSE With(KimiMatch(t, p),
              LAMBDA m : IF m.rule # 0
                         THEN [start |-> p, end |-> m.end, rule |-> m.rule]
                         ELSE FindFrom(t, p + 1))

ChunkText(t, c) == SubSeq(t, c.start, c.end - 1)

(* Inputs of the segmenter specification *)
MaxTextLen == 4
\* a Han ideograph, S, s, a combining mark, the apostrophe, 1, !, space, newline
SegChars == {20013, 83, 115, 769, 39, 49, 33, 32, 10}

InitSegment ==
    /\ IdleSpecial /\ IdleMerge /\ IdleMain /\ IdleDownload
    /\ sg_pc = "scan"
    /\ sg_text \in SeqsUpTo(SegChars, MaxTextLen)
    /\ sg_pos = 1
    /\ sg_chunks = <<>>

\* one step of the chunk iterator
NextChunk ==
    /\ sg_pc = "scan"
    /\ \E c \in {FindFrom(sg_text, sg_pos)} :
           IF c.rule = 0
           THEN /\ sg_pc' = "done"
                /\ UNCHANGED <<sg_pos, sg_chunks>>
           ELSE /\ sg_chunks' = Append(sg_chunks, c)
                /\ sg_pos' = c.end
                /\ UNCHANGED sg_pc
    /\ UNCHANGED <<sg_text, special_vars, merge_vars, main_vars, download_vars>>

NextSegment == NextChunk

SpecSegment == InitSegment /\ [][NextSegment]_vars

\* C9: the chunks are non-empty, each comes from one rule, each starts where the
\* one before it ended (the first at the start of the text), and when the scan
\* is over they reach the end of the text and their concatenation is the text.
C9_ChunksPartitionText ==
    /\ \A i \in DOMAIN sg_chunks :
          /\ sg_chunks[i].rule \in 1..NumRules
          /\ sg_chunks[i].start < sg_chunks[i].end
          /\ sg_chunks[i].start = (IF i = 1 THEN 1 ELSE sg_chunks[i - 1].end)
    /\ sg_pos = (IF sg_chunks = <<>> THEN 1 ELSE sg_chunks[Len(sg_chunks)].end)
    /\ sg_pc = "done" =>
          /\ sg_pos = Len(sg_text) + 1
          /\ Concat([i \in DOMAIN sg_chunks |-> ChunkText(sg_text, sg_chunks[i])]) = sg_text

\* a text of several chunks, scanned to its end
C9_Witness ==
    /\ sg_pc = "done"
    /\ Len(sg_chunks) >= 3
    /\ \E i \in DOMAIN sg_chunks : sg_chunks[i].rule = 8
    /\ \E i \in DOMAIN sg_chunks : sg_chunks[i].rule = 2

----------------------------------------------------------------------------
(* BPE merger *)

SingleBytes(bytes) == [i \in DOMAIN bytes |-> <<bytes[i]>>]

\* the positions i whose pair pieces[i] \o pieces[i+1] is in the rank table
Mergeable(ranks, pieces) ==
    {i \in 1..(Len(pieces) - 1) : DictHas(ranks, pieces[i] \o pieces[i + 1])}

PairRank(ranks, pieces, i) == DictGet(ranks, pieces[i] \o pieces[i + 1])

\* the pair of lowest rank, the leftmost of them on a tie
BestPair(ranks, pieces) ==
    CHOOSE i \in Mergeable(ranks, pieces) :
        \A j \in Mergeable(ranks, pieces) :
            \/ PairRank(ranks, pieces, i) < PairRank(ranks, pieces, j)
            \/ PairRank(ranks, pieces, i) = PairRank(ranks, pieces, j) /\ i <= j

\* a merge that keeps the left piece of the pair and loses the right one
MergeAtDropping(pieces, i) ==
    SubSeq(pieces, 1, i - 1) \o <<pieces[i]>> \o SubSeq(pieces, i + 2, Len(pieces))

MergeAt(pieces, i) ==
    SubSeq(pieces, 1, i - 1) \o <<pieces[i] \o pieces[i + 1]>>
        \o SubSeq(pieces, i + 2, Len(pieces))

MergeOnce(ranks, pieces) == MergeAt(pieces, BestPair(ranks, pieces))

\* step 5: every final piece must be in the rank table
PiecesKnown(ranks, pieces) == \A i \in DOMAIN pieces : DictHas(ranks, pieces[i])
PieceIds(ranks, pieces) == [i \in DOMAIN pieces |-> DictGet(ranks, pieces[i])]

RECURSIVE MergeAll(_, _)
MergeAll(ranks, pieces) ==
    IF Mergeable(ranks, pieces) = {} THEN pieces
    ELSE MergeAll(ranks, MergeOnce(ranks, pieces))

(* Inputs of the merger specification *)
MaxChunkLen == 4
MaxMerges == 2
MaxPieceLen == 3
BpBytes == <<97, 98>>
MergeCandidates == {w \in SeqsUpTo(Range(BpBytes), MaxPieceLen) : Len(w) >= 2}
\* every single byte has a rank; the merges take the ranks after them
RankTableOf(merges) ==
    {<<(<<BpBytes[i]>>), i - 1>> : i \in DOMAIN BpBytes}
        \cup {<<merges[i], Len(BpBytes) + i - 1>> : i \in DOMAIN merges}
MergeLists == {m \in SeqsUpTo(MergeCandidates, MaxMerges) :
                 \A i, j \in DOMAIN m : i # j => m[i] # m[j]}

InitMerge ==
    /\ IdleSpecial /\ IdleSegment /\ IdleMain /\ IdleDownload
    /\ bp_pc = "merge"
    /\ \E m \in MergeLists : bp_ranks = RankTableOf(m)
    /\ bp_chunk \in SeqsUpTo(Range(BpBytes), MaxChunkLen) \ {<<>>}
    /\ bp_pieces = SingleBytes(bp_chunk)
    /\ bp_merges = 0
    /\ bp_ids = <<>>

\* steps 2 and 4: merge the lowest-rank adjacent pair
MergeStep ==
    /\ bp_pc = "merge"
    /\ Mergeable(bp_ranks, bp_pieces) # {}
    /\ bp_pieces' = MergeOnce(bp_ranks, bp_pieces)
    /\ bp_merges' = bp_merges + 1
    /\ UNCHANGED <<bp_pc, bp_ranks, bp_chunk, bp_ids, special_vars, segment_vars,
                   main_vars, download_vars>>

\* steps 3 and 5: no pair is in the table; the pieces become their ranks
MergeFinish ==
    /\ bp_pc = "merge"
    /\ Mergeable(bp_ranks, bp_pieces) = {}
    /\ bp_pc' = IF PiecesKnown(bp_ranks, bp_pieces) THEN "done" ELSE "inconsistent"
    /\ bp_ids' = IF PiecesKnown(bp_ranks, bp_pieces)
                 THEN PieceIds(bp_ranks, bp_pieces) ELSE <<>>
    /\ UNCHANGED <<bp_ranks, bp_chunk, bp_pieces, bp_merges, special_vars, segment_vars,
                   main_vars, download_vars>>

NextMerge == MergeStep \/ MergeFinish

SpecMerge == InitMerge /\ [][NextMerge]_vars

RankBytes(ranks, id) == (CHOOSE p \in ranks : p[2] = id)[1]

\* C10: at every step the pieces concatenate to the chunk's bytes; every merge
\* shortens the piece sequence by one, so there are fewer merges than bytes and
\* the merging ends; it ends with every piece in the rank table, and the bytes
\* of the rank-ids it gives are the chunk's bytes.
C10_MergerCoversChunk ==
    /\ bp_pc # "inconsistent"
    /\ Concat(bp_pieces) = bp_chunk
    /\ \A i \in DOMAIN bp_pieces : bp_pieces[i] # <<>>
    /\ Len(bp_pieces) + bp_merges = Len(bp_chunk)
    /\ bp_pc = "done" =>
          /\ Mergeable(bp_ranks, bp_pieces) = {}
          /\ PiecesKnown(bp_ranks, bp_pieces)
          /\ Len(bp_ids) = Len(bp_pieces)
          /\ Concat([i \in DOMAIN bp_ids |-> RankBytes(bp_ranks, bp_ids[i])]) = bp_chunk

\* a chunk merged twice, down to fewer pieces than bytes
C10_Witness ==
    /\ bp_pc = "done"
    /\ bp_merges >= 2
    /\ Len(bp_ids) >= 2

----------------------------------------------------------------------------
(* Text, bytes and base64 *)

\* the printable ASCII characters, from the space (32) to the tilde (126); the
\* double quote, the backslash and the backtick are written by their names
Ascii == <<" ", "!", "quote", "#", "$", "%", "&", "'", "(", ")", "*", "+", ",", "-",
           ".", "/", "0", "1", "2", "3", "4", "5", "6", "7", "8", "9", ":", ";",
           "<", "=", ">", "?", "@", "A", "B", "C", "D", "E", "F", "G", "H", "I",
           "J", "K", "L", "M", "N", "O", "P", "Q", "R", "S", "T", "U", "V", "W",
           "X", "Y", "Z", "[", "backslash", "]", "^", "_", "backtick", "a", "b", "c", "d", "e",
           "f", "g", "h", "i", "j", "k", "l", "m", "n", "o", "p", "q", "r", "s",
           "t", "u", "v", "w", "x", "y", "z", "{", "|", "}", "~">>
Ord(c) == 31 + (CHOOSE i \in DOMAIN Ascii : Ascii[i] = c)
\* the codepoints of a string of ASCII characters
Codes(str) == [i \in DOMAIN str |-> Ord(str[i])]

\* str.encode("utf-8") of one codepoint below 0x10000
Utf8Of(cp) ==
    IF cp < 128 THEN <<cp>>
    ELSE IF cp < 2048 THEN <<192 + (cp \div 64), 128 + (cp % 64)>>
    ELSE <<224 + (cp \div 4096), 128 + ((cp \div 64) % 64), 128 + (cp % 64)>>
Utf8Encode(text) == Concat([i \in DOMAIN text |-> Utf8Of(text[i])])

IsCont(bytes, i) == i <= Len(bytes) /\ bytes[i] \in 128..191
\* the second byte a three-byte lead allows
SecondOk(lead, b) ==
    /\ b \in 128..191
    /\ (lead = 224 => b >= 160)
    /\ (lead = 237 => b <= 159)
ReplacementChar == 65533

\* bytes.decode("utf-8", errors="replace"): [cp, next] for the sequence at i;
\* an ill-formed sequence gives U+FFFD for its longest well-formed start.
Utf8Lead(bytes, i, b) ==
    IF b < 128 THEN [cp |-> b, next |-> i + 1]
    ELSE IF b \in 194..223
         THEN IF IsCont(bytes, i + 1)
              THEN [cp |-> (b - 192) * 64 + (bytes[i + 1] - 128), next |-> i + 2]
              ELSE [cp |-> ReplacementChar, next |-> i + 1]
    ELSE IF b \in 224..239
         THEN IF i + 1 <= Len(bytes) /\ SecondOk(b, bytes[i + 1])
              THEN IF IsCont(bytes, i + 2)
                   THEN [cp |-> (b - 224) * 4096 + (bytes[i + 1] - 128) * 64
                                  + (bytes[i + 2] - 128),
                         next |-> i + 3]
                   ELSE [cp |-> ReplacementChar, next |-> i + 2]
              ELSE [cp |-> ReplacementChar, next |-> i + 1]
    ELSE [cp |-> ReplacementChar, next |-> i + 1]
Utf8At(bytes, i) == Utf8Lead(bytes, i, bytes[i])

RECURSIVE Utf8DecodeFrom(_, _)
Utf8DecodeFrom(bytes, i) ==
    IF i > Len(bytes) THEN <<>>
    ELSE With(Utf8At(bytes, i),
              LAMBDA u : <<u.cp>> \o Utf8DecodeFrom(bytes, u.next))
Utf8Decode(bytes) == Utf8DecodeFrom(bytes, 1)

B64Alphabet == <<"A", "B", "C", "D", "E", "F", "G", "H", "I", "J", "K", "L", "M",
                 "N", "O", "P", "Q", "R", "S", "T", "U", "V", "W", "X", "Y", "Z",
                 "a", "b", "c", "d", "e", "f", "g", "h", "i", "j", "k", "l", "m",
                 "n", "o", "p", "q", "r", "s", "t", "u", "v", "w", "x", "y", "z",
                 "0", "1", "2", "3", "4", "5", "6", "7", "8", "9", "+", "/">>
IsB64(c) == \E i \in DOMAIN B64Alphabet : B64Alphabet[i] = c
B64Val(c) == (CHOOSE i \in DOMAIN B64Alphabet : B64Alphabet[i] = c) - 1

\* the bytes of a run of sextets: three of four, two of three, one of two
RECURSIVE SextetBytes(_)
SextetBytes(v) ==
    IF Len(v) >= 4
    THEN <<v[1] * 4 + (v[2] \div 16), (v[2] % 16) * 16 + (v[3] \div 4),
           (v[3] % 4) * 64 + v[4]>> \o SextetBytes(SubSeq(v, 5, Len(v)))
    ELSE IF Len(v) = 3
    THEN <<v[1] * 4 + (v[2] \div 16), (v[2] % 16) * 16 + (v[3] \div 4)>>
    ELSE IF Len(v) = 2 THEN <<v[1] * 4 + (v[2] \div 16)>>
    ELSE <<>>

\* base64.b64decode(s): characters outside the alphabet are dropped; the data
\* ends at the first "=", and must be padded to a multiple of four.
\* [ok |-> FALSE] stands for binascii.Error.
B64Groups(data, npad) ==
    IF \/ Len(data) % 4 = 0
       \/ Len(data) % 4 = 2 /\ npad >= 2
       \/ Len(data) % 4 = 3 /\ npad >= 1
    THEN [ok |-> TRUE, bytes |-> SextetBytes([i \in DOMAIN data |-> B64Val(data[i])])]
    ELSE [ok |-> FALSE, bytes |-> <<>>]
\* the position of the first "=", or one past the end
FirstPad(kept) ==
    IF \A i \in DOMAIN kept : kept[i] # "=" THEN Len(kept) + 1
    ELSE CHOOSE i \in DOMAIN kept :
             kept[i] = "=" /\ \A j \in 1..(i - 1) : kept[j] # "="
B64Padded(kept, stop) ==
    B64Groups(SubSeq(kept, 1, stop - 1),
              Cardinality({i \in stop..(stop + 1) : i <= Len(kept) /\ kept[i] = "="}))
B64Kept(kept) == B64Padded(kept, FirstPad(kept))
B64Decode(str) == B64Kept(SelectSeq(str, LAMBDA c : IsB64(c) \/ c = "="))

----------------------------------------------------------------------------
(* build_encoding *)

\* str.split(): the whitespace-separated fields of a string
FirstSpace(s) ==
    IF \A i \in DOMAIN s : ~IsSpace(s[i]) THEN Len(s) + 1
    ELSE CHOOSE i \in DOMAIN s : IsSpace(s[i]) /\ \A j \in 1..(i - 1) : ~IsSpace(s[j])
RECURSIVE FieldsOf(_)
FieldsOf(s) ==
    IF s = <<>> THEN <<>>
    ELSE <<SubSeq(s, 1, FirstSpace(s) - 1)>>
             \o FieldsOf(StripLeft(SubSeq(s, FirstSpace(s), Len(s))))
Fields(str) == FieldsOf(StripLeft(str))

\* line.split(maxsplit=1) of a stripped, non-empty line: the first field, and
\* the rest of the line without the whitespace before it, when there is one
SplitAt(line, cut) ==
    IF cut > Len(line) THEN <<line>>
    ELSE <<SubSeq(line, 1, cut - 1), StripLeft(SubSeq(line, cut, Len(line)))>>
SplitOnce(line) == SplitAt(line, FirstSpace(line))

\* One iteration of the loop over the lines: the ranks after the line, or the
\* exception it raises. In ranks[base64.b64decode(b64)] = int(rank_str) the
\* right-hand side is evaluated first.
RanksEntry(ranks, rank, key) ==
    IF ~rank.ok THEN [error |-> "ValueError", ranks |-> ranks]
    ELSE IF ~key.ok THEN [error |-> "binascii.Error", ranks |-> ranks]
    ELSE [error |-> "none", ranks |-> DictPut(ranks, key.bytes, rank.val)]
RanksParts(ranks, parts) ==
    IF Len(parts) # 2 THEN [error |-> "ValueError", ranks |-> ranks]
    ELSE RanksEntry(ranks, ParseInt(parts[2]), B64Decode(parts[1]))
RanksStripped(ranks, line) ==
    IF line = <<>> THEN [error |-> "none", ranks |-> ranks]
    ELSE RanksParts(ranks, SplitOnce(line))

RanksEntrySkipping(ranks, rank, key) ==
    IF ~rank.ok \/ ~key.ok THEN [error |-> "none", ranks |-> ranks]
    ELSE [error |-> "none", ranks |-> DictPut(ranks, key.bytes, rank.val)]
RanksPartsSkipping(ranks, parts) ==
    IF Len(parts) # 2 THEN [error |-> "none", ranks |-> ranks]
    ELSE RanksEntrySkipping(ranks, ParseInt(parts[2]), B64Decode(parts[1]))
\* a loop that passes over a line it cannot read
RanksLineSkipping(ranks, rawline) ==
    IF Strip(rawline) = <<>> THEN [error |-> "none", ranks |-> ranks]
    ELSE RanksPartsSkipping(ranks, SplitOnce(Strip(rawline)))

RanksLine(ranks, rawline) == RanksStripped(ranks, Strip(rawline))

RECURSIVE ReadRanks(_, _)
ReadRanks(lines, ranks) ==
    IF lines = <<>> THEN [error |-> "none", ranks |-> ranks]
    ELSE With(RanksLine(ranks, Head(lines)),
              LAMBDA r : IF r.error # "none" THEN r ELSE ReadRanks(Tail(lines), r.ranks))

\* tiktoken.Encoding(...): the constructor inverts the rank table and refuses
\* one in which two byte strings share a rank.
RanksInvertible(ranks) == \A p, q \in ranks : p[2] = q[2] => p = q

EncodingOf(r, added) ==
    IF r.error # "none" THEN [error |-> r.error, enc |-> NoEncoding]
    ELSE IF ~RanksInvertible(r.ranks)
         THEN [error |-> "PanicException", enc |-> NoEncoding]
    ELSE [error |-> "none",
          enc |-> [built |-> TRUE, ranks |-> r.ranks,
                   special_tokens |->
                       build_special_tokens(added, Cardinality(r.ranks))]]
build_encoding(lines, added) == EncodingOf(ReadRanks(lines, {}), added)

----------------------------------------------------------------------------
(* Encoder and decoder *)

\* the chunks of a text, in order
RECURSIVE Segments(_, _)
Segments(t, p) ==
    With(FindFrom(t, p),
         LAMBDA c : IF c.rule = 0 THEN <<>>
                    ELSE <<ChunkText(t, c)>> \o Segments(t, c.end))

\* one chunk: [ok, ids]; ok is FALSE when a final piece has no rank
IdsOfPieces(ranks, pieces) ==
    IF PiecesKnown(ranks, pieces) THEN [ok |-> TRUE, ids |-> PieceIds(ranks, pieces)]
    ELSE [ok |-> FALSE, ids |-> <<>>]
EncodeChunk(ranks, chunk) ==
    IdsOfPieces(ranks, MergeAll(ranks, SingleBytes(Utf8Encode(chunk))))

\* text without any special token recognized
JoinEncoded(each) ==
    [ok |-> \A i \in DOMAIN each : each[i].ok,
     ids |-> Concat([i \in DOMAIN each |-> each[i].ids])]
EncodeChunks(ranks, chunks) ==
    JoinEncoded([i \in DOMAIN chunks |-> EncodeChunk(ranks, chunks[i])])
EncodeOrdinary(ranks, text) == EncodeChunks(ranks, Segments(text, 1))

NameAt(text, p, name) ==
    /\ name # <<>>
    /\ p + Len(name) - 1 <= Len(text)
    /\ SubSeq(text, p, p + Len(name) - 1) = Codes(name)

SpecialsAt(special_tokens, text, p) == {s \in special_tokens : NameAt(text, p, s[1])}

ContainsSpecial(special_tokens, text) ==
    \E p \in DOMAIN text : SpecialsAt(special_tokens, text, p) # {}

\* the leftmost position from start on at which a name begins, or 0
NextSpecialAt(special_tokens, text, start) ==
    IF \A p \in start..Len(text) : SpecialsAt(special_tokens, text, p) = {} THEN 0
    ELSE CHOOSE p \in start..Len(text) :
             /\ SpecialsAt(special_tokens, text, p) # {}
             /\ \A q \in start..(p - 1) : SpecialsAt(special_tokens, text, q) = {}

\* text with every special-token name recognized: the text before the leftmost
\* name is encoded as ordinary text, the name gives its id, and so on after it
RECURSIVE EncodeWithSpecial(_, _, _)
SpliceSpecial(enc, text, start, p, s) ==
    JoinEncoded(<<EncodeOrdinary(enc.ranks, SubSeq(text, start, p - 1)),
                  [ok |-> TRUE, ids |-> <<s[2]>>],
                  EncodeWithSpecial(enc, text, p + Len(s[1]))>>)
EncodeFromSpecial(enc, text, start, p) ==
    IF p = 0 THEN EncodeOrdinary(enc.ranks, SubSeq(text, start, Len(text)))
    ELSE SpliceSpecial(enc, text, start, p,
                       CHOOSE s \in SpecialsAt(enc.special_tokens, text, p) : TRUE)
EncodeWithSpecial(enc, text, start) ==
    EncodeFromSpecial(enc, text, start, NextSpecialAt(enc.special_tokens, text, start))

\* the bytes of one id: the rank table first, then the special tokens
IdKnown(enc, id) == id \in DictVals(enc.ranks) \/ id \in DictVals(enc.special_tokens)
IdBytes(enc, id) ==
    IF id \in DictVals(enc.ranks) THEN RankBytes(enc.ranks, id)
    ELSE Utf8Encode(Codes((CHOOSE s \in enc.special_tokens : s[2] = id)[1]))

Decode(enc, ids) == Utf8Decode(Concat([i \in DOMAIN ids |-> IdBytes(enc, ids[i])]))

----------------------------------------------------------------------------
(* main: the encoding is built, then every text of the payload is encoded *)

\* ids of one text: allowed_special="all" recognizes every special-token name;
\* disallowed_special=() checks nothing and recognizes none
EncodeAlwaysSpecial(enc, text, allow) == EncodeWithSpecial(enc, text, 1)

EncodeFor(enc, text, allow) ==
    IF allow THEN EncodeWithSpecial(enc, text, 1)
    ELSE EncodeOrdinary(enc.ranks, text)

\* text.strip() on codepoints
RECURSIVE TextStrip(_)
TextStrip(text) ==
    IF text # <<>> /\ IsWhite(Head(text)) THEN TextStrip(Tail(text))
    ELSE IF text # <<>> /\ IsWhite(text[Len(text)])
         THEN TextStrip(SubSeq(text, 1, Len(text) - 1))
         ELSE text

\* the record of one text, or ok = FALSE when the encoding raises
RecordFrom(enc, text, e) ==
    [ok |-> e.ok,
     rec |-> [text |-> text, ids |-> e.ids,
              decoded |-> IF e.ok THEN Decode(enc, e.ids) ELSE <<>>]]

\* a loop that encodes text.strip()
RecordOfStripped(enc, text, allow) ==
    RecordFrom(enc, text, EncodeFor(enc, TextStrip(text), allow))

RecordOf(enc, text, allow) == RecordFrom(enc, text, EncodeFor(enc, text, allow))

(* Inputs of main *)
MaxTexts == 2

\* tiktoken.model: a line for every single byte of the texts (a, b, the space
\* and the two bytes of U+0301), the last of them present or not, and at most
\* one more line before or after them
LineA == <<"Y", "Q", "=", "=", " ", "0">>
LineB == <<"Y", "g", "=", "=", " ", "1">>
LineSpace == <<"I", "A", "=", "=", " ", "2">>
LineCC == <<"z", "A", "=", "=", " ", "3">>
Line81 == <<"g", "Q", "=", "=", " ", "4">>
BaseFiles == {<<LineA, LineB, LineSpace, LineCC, Line81>>,
              <<LineA, LineB, LineSpace, LineCC>>}
ExtraLines == {<<"Y", "W", "I", "=", " ", "5">>,
               <<"z", "I", "E", "=", " ", "5">>,
               <<>>,
               <<" ", " ">>,
               <<"Y", "W", "I", "=">>,
               <<"Y", "W", "I", "=", " ", "5", " ", "6">>,
               <<"Y", "W", "I", "=", " ", "x">>,
               <<"Y", "W", "I", "=", " ", "3", "0", "0">>,
               <<"Y", "W", "I", "=", " ", "7">>,
               <<"Y", "W", "I", " ", "5">>,
               <<"Y", "W", "I", "=", " ", "1">>,
               <<"Y", "Q", "=", "=", " ", "5">>}
RankFiles == BaseFiles
             \cup {b \o <<x>> : b \in BaseFiles, x \in ExtraLines}
             \cup {<<x>> \o b : b \in BaseFiles, x \in ExtraLines}

\* added_tokens_decoder: nothing, or a name for id 10
MainAdded == {<<>>,
              <<[key |-> <<"1", "0">>, attrs |-> [kind |-> "str", content |-> <<"b">>]]>>,
              <<[key |-> <<"1", "0">>, attrs |-> [kind |-> "str", content |-> <<"a", "b">>]],
                [key |-> <<"x">>, attrs |-> [kind |-> "notdict", content |-> <<>>]]>>}

\* the entries of texts: strings, and an entry that is not a string
MainTexts == {<<>>, <<97>>, <<97, 98>>, <<97, 32, 98>>, <<32, 97>>, <<97, 769>>}
TextItems == {[str |-> TRUE, cps |-> t] : t \in MainTexts}
             \cup {[str |-> FALSE, cps |-> <<>>]}

InitMain ==
    /\ IdleSpecial /\ IdleSegment /\ IdleMerge /\ IdleDownload
    /\ m_pc = "build"
    /\ m_lines \in RankFiles
    /\ m_added \in MainAdded
    /\ m_count \in 0..MaxTexts
    /\ m_allow \in BOOLEAN
    /\ m_enc = NoEncoding
    /\ m_texts = <<>>
    /\ m_out = <<>>
    /\ m_stdout = NoOutput
    /\ m_error = "none"

\* enc = build_encoding(model_path, config_path)
BuildEncoding ==
    /\ m_pc = "build"
    /\ \E r \in {build_encoding(m_lines, m_added)} :
           IF r.error # "none"
           THEN /\ m_pc' = "failed"
                /\ m_error' = r.error
                /\ UNCHANGED m_enc
           ELSE /\ m_pc' = "loop"
                /\ m_enc' = r.enc
                /\ UNCHANGED m_error
    /\ UNCHANGED <<m_lines, m_added, m_count, m_allow, m_texts, m_out, m_stdout,
                   special_vars, segment_vars, merge_vars, download_vars>>

\* one iteration of "for text in texts"
LoopText ==
    /\ m_pc = "loop"
    /\ Len(m_texts) < m_count
    /\ \E item \in TextItems :
          /\ m_texts' = Append(m_texts, item)
          /\ IF ~item.str
             THEN /\ m_pc' = "failed"
                  /\ m_error' = "TypeError"
                  /\ UNCHANGED m_out
             ELSE \E r \in {RecordOf(m_enc, item.cps, m_allow)} :
                      IF ~r.ok
                      THEN /\ m_pc' = "failed"
                           /\ m_error' = "PanicException"
                           /\ UNCHANGED m_out
                      ELSE /\ m_out' = Append(m_out, r.rec)
                           /\ UNCHANGED <<m_pc, m_error>>
    /\ UNCHANGED <<m_lines, m_added, m_count, m_allow, m_enc, m_stdout,
                   special_vars, segment_vars, merge_vars, download_vars>>

\* sys.stdout.write(json.dumps({..., "results": out}))
WriteOutput ==
    /\ m_pc = "loop"
    /\ Len(m_texts) = m_count
    /\ m_stdout' = [written |-> TRUE, results |-> m_out]
    /\ m_pc' = "written"
    /\ UNCHANGED <<m_lines, m_added, m_count, m_allow, m_enc, m_texts, m_out,
                   m_error, special_vars, segment_vars, merge_vars, download_vars>>

NextMain == BuildEncoding \/ LoopText \/ WriteOutput

SpecMain == InitMain /\ [][NextMain]_vars

BaseSize == Cardinality(m_enc.ranks)
RecordHasSpecial(i) == ContainsSpecial(m_enc.special_tokens, m_out[i].text)
AllRanked(ids) == \A k \in DOMAIN ids : ids[k] \in DictVals(m_enc.ranks)
BytesOfRanks(ids) == Concat([k \in DOMAIN ids |-> RankBytes(m_enc.ranks, ids[k])])
BytesRanked(text) == \A b \in Range(Utf8Encode(text)) : DictHas(m_enc.ranks, <<b>>)

\* C3 as stated: with allow_special_tokens false, a text that contains a
\* special-token name gets no id sequence.
C3_SpecialNameRejected ==
    \A i \in DOMAIN m_out : ~(~m_allow /\ RecordHasSpecial(i))

\* C3 amended: with allow_special_tokens false, a text that contains a
\* special-token name is encoded as ordinary text: main ends with no
\* DisallowedSpecialTokenError, the text gets a record unless one of its bytes
\* has no rank, and every id of the record is a rank of the rank table whose
\* byte strings concatenate to the text's bytes (the name's reserved id is not
\* spliced in).
C3_SpecialNameEncodedAsText ==
    /\ m_error \in {"none", "ValueError", "binascii.Error", "PanicException", "TypeError"}
    /\ \A i \in DOMAIN m_texts :
          (/\ m_texts[i].str /\ ~m_allow
           /\ ContainsSpecial(m_enc.special_tokens, m_texts[i].cps))
          => IF BytesRanked(m_texts[i].cps)
             THEN /\ i <= Len(m_out)
                  /\ m_out[i].text = m_texts[i].cps
                  /\ AllRanked(m_out[i].ids)
                  /\ BytesOfRanks(m_out[i].ids) = Utf8Encode(m_texts[i].cps)
             ELSE i = Len(m_out) + 1 /\ m_pc = "failed" /\ m_error = "PanicException"

\* a record of a text that holds a special-token name, made with the flag false
C3_Witness ==
    /\ ~m_allow
    /\ \E i \in DOMAIN m_out : RecordHasSpecial(i) /\ Len(m_out[i].text) >= 2

\* C4: with allow_special_tokens false, the record of a text that contains no
\* special-token name has decoded equal to the text.
C4_RoundTrip ==
    \A i \in DOMAIN m_out :
        (~m_allow /\ ~RecordHasSpecial(i)) => m_out[i].decoded = m_out[i].text

\* such a record, of a text with a two-byte codepoint and a name in the table
C4_Witness ==
    /\ ~m_allow /\ m_added # <<>>
    /\ \E i \in DOMAIN m_out :
          /\ ~RecordHasSpecial(i)
          /\ \E k \in DOMAIN m_out[i].text : m_out[i].text[k] >= 128
          /\ m_out[i].decoded = m_out[i].text

\* C5: every id of every record is a base rank below N or a special-token id
\* in [N, N+R), N being the number of entries of the rank table, and no id is
\* both.
C5_IdsInRange ==
    \A i \in DOMAIN m_out : \A k \in DOMAIN m_out[i].ids :
        LET id == m_out[i].ids[k] IN
        /\ id \in 0..(BaseSize + NUM_RESERVED_SPECIAL_TOKENS - 1)
        /\ \/ id < BaseSize /\ id \in DictVals(m_enc.ranks)
           \/ /\ id >= BaseSize /\ id \in DictVals(m_enc.special_tokens)
              /\ id \notin DictVals(m_enc.ranks)

\* C6: when the processing of a text fails, the records made before it reach
\* the caller and the texts after it are still processed.
C6_FailureScopedToText ==
    (m_pc = "failed" /\ m_texts # <<>>) =>
        /\ m_out # <<>> => (m_stdout.written /\ m_stdout.results = m_out)
        /\ Len(m_texts) = m_count

\* a line that is not blank and does not split into two fields the second of
\* which is an integer
MalformedLine(l) ==
    LET f == Fields(l) IN f # <<>> /\ (Len(f) # 2 \/ ~ParseInt(f[2]).ok)
HasMalformedLine == \E i \in DOMAIN m_lines : MalformedLine(m_lines[i])

\* C7: with such a line in the rank table file, main ends in a load error with
\* no encoding built, before any text is taken and with nothing written.
C7_MalformedTableFailsLoad ==
    HasMalformedLine =>
        /\ m_pc \in {"build", "failed"}
        /\ m_pc = "failed" => m_error \in {"ValueError", "binascii.Error"}
        /\ m_enc = NoEncoding
        /\ m_texts = <<>> /\ m_out = <<>> /\ ~m_stdout.written

\* main ended on a malformed line with texts waiting
C7_Witness ==
    /\ HasMalformedLine /\ m_pc = "failed" /\ m_error = "ValueError" /\ m_count > 0

----------------------------------------------------------------------------
(* download_if_missing, as main calls it for tiktoken.model and then for
   tokenizer_config.json *)

\* the size of the content the server holds for a path
ContentLen == 3
MaxRuns == 3
Paths == {"model", "config"}
Missing == [exists |-> FALSE, size |-> 0]
Complete(f) == f.exists /\ f.size = ContentLen

\* where main goes after download_if_missing has returned for a path
AfterReturn(path) == IF path = "model" THEN "config" ELSE "done"

InitDownload ==
    /\ IdleSpecial /\ IdleSegment /\ IdleMerge /\ IdleMain
    /\ d_pc = "model"
    /\ d_fs = [p \in Paths |-> Missing]
    /\ d_returned = {}
    /\ d_runs = 1

\* if path.exists(): return path
DownloadExisting ==
    /\ d_pc \in Paths
    /\ d_fs[d_pc].exists
    /\ d_returned' = d_returned \cup {d_pc}
    /\ d_pc' = AfterReturn(d_pc)
    /\ UNCHANGED <<d_fs, d_runs, special_vars, segment_vars, merge_vars, main_vars>>

\* requests.get times out or fails, or raise_for_status raises: nothing is written
DownloadFails ==
    /\ d_pc \in Paths
    /\ ~d_fs[d_pc].exists
    /\ d_pc' = "failed"
    /\ UNCHANGED <<d_fs, d_returned, d_runs, special_vars, segment_vars, merge_vars,
                   main_vars>>

\* path.write_bytes(resp.content) runs to its end
DownloadWritten ==
    /\ d_pc \in Paths
    /\ ~d_fs[d_pc].exists
    /\ d_fs' = [d_fs EXCEPT ![d_pc] = [exists |-> TRUE, size |-> ContentLen]]
    /\ d_returned' = d_returned \cup {d_pc}
    /\ d_pc' = AfterReturn(d_pc)
    /\ UNCHANGED <<d_runs, special_vars, segment_vars, merge_vars, main_vars>>

\* path.write_bytes has opened the file and is stopped (the process is
\* interrupted or killed, the disk is full) with fewer bytes written
DownloadInterrupted ==
    /\ d_pc \in Paths
    /\ ~d_fs[d_pc].exists
    /\ \E written \in 0..(ContentLen - 1) :
          d_fs' = [d_fs EXCEPT ![d_pc] = [exists |-> TRUE, size |-> written]]
    /\ d_pc' = "failed"
    /\ UNCHANGED <<d_returned, d_runs, special_vars, segment_vars, merge_vars, main_vars>>

\* main is run again on the same cache directory
RunAgain ==
    /\ d_pc \in {"done", "failed"}
    /\ d_runs < MaxRuns
    /\ d_runs' = d_runs + 1
    /\ d_pc' = "model"
    /\ d_returned' = {}
    /\ UNCHANGED <<d_fs, special_vars, segment_vars, merge_vars, main_vars>>

NextDownload ==
    DownloadExisting \/ DownloadFails \/ DownloadWritten \/ DownloadInterrupted
        \/ RunAgain

SpecDownload == InitDownload /\ [][NextDownload]_vars

\* C8: a file that exists at a target path holds the complete content, so a
\* path that download_if_missing has returned is a complete file (no partial
\* file of a failed download is accepted by a later call).
C8_ReturnedFileIsComplete ==
    \A p \in d_returned : Complete(d_fs[p])

=============================================================================
